---- MODULE Spec2Model ----
(***************************************************************************)
(* Model of Dolphin's input expression parser                              *)
(* (Source/Core/InputCommon/ControlReference/ExpressionParser.cpp):        *)
(* the lexer, the recursive-descent parser, the expression tree with its   *)
(* GetValue / SetValue / CountNumControls / std::string operators, the     *)
(* ControlFinder lookups and the ParseExpression entry point.              *)
(*                                                                         *)
(* A std::string is a sequence of one-character strings.  A ControlState   *)
(* (double) is an integer number of eighths, 0 .. One: on multiples of 1/8 *)
(* the double operations the code uses (1.0 - x, x + y, min, max) are      *)
(* exact, so the integer arithmetic below is the code's arithmetic.        *)
(***************************************************************************)
EXTENDS Integers, Sequences, FiniteSets

VARIABLES
    str,       \* the text handed to ParseExpression
    finder,    \* the ControlFinder: container, default_device, is_input
    tokens,    \* the token vector the Parser was constructed with
    pc,        \* "start", "parsed", "got", "set", "counted", "rendered"
    status,    \* ParseStatus of the last parse
    expr,      \* the expression tree returned (Null when none)
    m_it,      \* Parser::m_it when Parse() returned (index into tokens)
    reads,     \* the token indices Peek and Chew dereferenced, in order
    lexed,     \* TRUE when ParseExpressionInner ran Lexer::Tokenize
    inputs,    \* state of every input control  (Input::GetState)
    value,     \* what expr->GetValue() returned
    writes,    \* the Output::SetState calls of expr->SetValue(v), in order
    setv,      \* the v of the last SetValue(v)
    count,     \* what expr->CountNumControls() returned
    rendered   \* [r1, st2, r2]: render, status of re-parse, second render

vars == <<str, finder, tokens, pc, status, expr, m_it, reads, lexed,
          inputs, value, writes, setv, count, rendered>>

----------------------------------------------------------------------------
(* Bounds of the checked instances. *)

\* longest source text, in characters
MaxLen == 4
\* longest token vector handed to the Parser, not counting the final EOF
MaxToks == 5
\* most nodes of an expression tree that is evaluated directly
MaxNodes == 5

----------------------------------------------------------------------------
(* enum TokenType, class Token, class ControlQualifier *)

TOK_DISCARD == "TOK_DISCARD"
TOK_INVALID == "TOK_INVALID"
TOK_EOF == "TOK_EOF"
TOK_LPAREN == "TOK_LPAREN"
TOK_RPAREN == "TOK_RPAREN"
TOK_AND == "TOK_AND"
TOK_OR == "TOK_OR"
TOK_NOT == "TOK_NOT"
TOK_ADD == "TOK_ADD"
TOK_CONTROL == "TOK_CONTROL"

Successful == "Successful"
SyntaxError == "SyntaxError"
EmptyExpression == "EmptyExpression"
ParseStatus == {Successful, SyntaxError, EmptyExpression}

\* ControlQualifier(): has_device(false), the other members default-constructed
ControlQualifier ==
    [has_device |-> FALSE, device_qualifier |-> <<>>, control_name |-> <<>>]

\* Token(TokenType type_): the qualifier is default-constructed
Token(type) == [type |-> type, qualifier |-> ControlQualifier]

\* Token(TokenType type_, ControlQualifier qualifier_)
QualifiedToken(type, qualifier) == [type |-> type, qualifier |-> qualifier]

\* DeviceQualifier::FromString / ToString (Device.h, outside the sources at
\* hand): a device identity is kept as the text that names it.
DeviceFromString(text) == text
DeviceToString(dq) == dq

\* ControlQualifier::operator std::string
QualifierToString(q) ==
    IF q.has_device
    THEN DeviceToString(q.device_qualifier) \o <<":">> \o q.control_name
    ELSE q.control_name

----------------------------------------------------------------------------
(* class Lexer *)

\* isalpha in the "C" locale
isalpha(c) ==
    c \in {"a","b","c","d","e","f","g","h","i","j","k","l","m","n","o","p",
           "q","r","s","t","u","v","w","x","y","z","A","B","C","D","E","F",
           "G","H","I","J","K","L","M","N","O","P","Q","R","S","T","U","V",
           "W","X","Y","Z"}

\* The backquote character that opens and closes a quoted control name.  A
\* TLA+ string literal cannot hold a backquote, so the apostrophe stands for
\* it; the apostrophe itself is not a character of any modelled text.
BACKTICK == "'"

\* the default otherDelim = 0 of FetchBacktickString: no character equals it
NoDelim == ""

\* FetchBacktickString(value, otherDelim), with the Lexer's expr and it made
\* parameters and value an accumulator that starts empty (value = "").
RECURSIVE FetchBacktickString(_, _, _, _)
FetchBacktickString(e, it, val, otherDelim) ==
    IF it > Len(e)
    THEN [found |-> FALSE, value |-> val, it |-> it]
    ELSE LET c == e[it] IN
         IF c = BACKTICK
         THEN [found |-> FALSE, value |-> val, it |-> it + 1]
         ELSE IF otherDelim # NoDelim /\ c = otherDelim
         THEN [found |-> TRUE, value |-> val, it |-> it + 1]
         ELSE FetchBacktickString(e, it + 1, Append(val, c), otherDelim)

\* Lexer::GetFullyQualifiedControl; returns the token and the new cursor
GetFullyQualifiedControl(e, it) ==
    LET first == FetchBacktickString(e, it, <<>>, ":") IN
    IF first.found
    THEN LET second == FetchBacktickString(e, first.it, <<>>, NoDelim) IN
         [tok |-> QualifiedToken(TOK_CONTROL,
                     [has_device |-> TRUE,
                      device_qualifier |-> DeviceFromString(first.value),
                      control_name |-> second.value]),
          it |-> second.it]
    ELSE [tok |-> QualifiedToken(TOK_CONTROL,
                     [has_device |-> FALSE,
                      device_qualifier |-> <<>>,
                      control_name |-> first.value]),
          it |-> first.it]

\* Lexer::GetBarewordsControl(c): name starts as c; it already points past c
RECURSIVE GetBarewordsControl(_, _, _)
GetBarewordsControl(e, it, name) ==
    IF it <= Len(e) /\ isalpha(e[it])
    THEN GetBarewordsControl(e, it + 1, Append(name, e[it]))
    ELSE [tok |-> QualifiedToken(TOK_CONTROL,
                     [has_device |-> FALSE,
                      device_qualifier |-> <<>>,
                      control_name |-> name]),
          it |-> it]

\* Lexer::NextToken
NextToken(e, it) ==
    IF it > Len(e)
    THEN [tok |-> Token(TOK_EOF), it |-> it]
    ELSE LET c == e[it] IN
         CASE c \in {" ", "\t", "\n", "\r"} -> [tok |-> Token(TOK_DISCARD), it |-> it + 1]
           [] c = "(" -> [tok |-> Token(TOK_LPAREN), it |-> it + 1]
           [] c = ")" -> [tok |-> Token(TOK_RPAREN), it |-> it + 1]
           [] c = "&" -> [tok |-> Token(TOK_AND), it |-> it + 1]
           [] c = "|" -> [tok |-> Token(TOK_OR), it |-> it + 1]
           [] c = "!" -> [tok |-> Token(TOK_NOT), it |-> it + 1]
           [] c = "+" -> [tok |-> Token(TOK_ADD), it |-> it + 1]
           [] c = BACKTICK -> GetFullyQualifiedControl(e, it + 1)
           [] OTHER -> IF isalpha(c)
                       THEN GetBarewordsControl(e, it + 1, <<c>>)
                       ELSE [tok |-> Token(TOK_INVALID), it |-> it + 1]

\* Lexer::Tokenize, the while (true) loop as a recursion on the cursor
RECURSIVE Tokenize(_, _, _)
Tokenize(e, it, toks) ==
    LET n == NextToken(e, it) IN
    IF n.tok.type = TOK_DISCARD
    THEN Tokenize(e, n.it, toks)
    ELSE IF n.tok.type = TOK_INVALID
    THEN [status |-> SyntaxError, tokens |-> <<>>]
    ELSE IF n.tok.type = TOK_EOF
    THEN [status |-> Successful, tokens |-> Append(toks, n.tok)]
    ELSE Tokenize(e, n.it, Append(toks, n.tok))

----------------------------------------------------------------------------
(* class ControlFinder.  The container maps a device identity to the names *)
(* of that device's input controls and of its output controls.             *)

\* a null std::shared_ptr<Device>, a null Device::Control*
NullDevice == [null |-> TRUE, id |-> <<>>]
NullControl == [null |-> TRUE, device |-> <<>>, name |-> <<>>]

\* DeviceContainer::FindDevice: the device with that identity, or null
ContainerFindDevice(container, id) ==
    IF id \in DOMAIN container THEN [null |-> FALSE, id |-> id] ELSE NullDevice

\* Device::FindInput / Device::FindOutput: the control with exactly that
\* name, or null
DeviceFindInput(container, device, name) ==
    IF name \in container[device.id].inputs
    THEN [null |-> FALSE, device |-> device.id, name |-> name]
    ELSE NullControl

DeviceFindOutput(container, device, name) ==
    IF name \in container[device.id].outputs
    THEN [null |-> FALSE, device |-> device.id, name |-> name]
    ELSE NullControl

\* ControlFinder::FindDevice
FindDevice(fnd, qualifier) ==
    IF qualifier.has_device
    THEN ContainerFindDevice(fnd.container, qualifier.device_qualifier)
    ELSE ContainerFindDevice(fnd.container, fnd.default_device)

\* ControlFinder::FindControl
FindControl(fnd, qualifier) ==
    LET device == FindDevice(fnd, qualifier) IN
    IF device.null
    THEN NullControl
    ELSE IF fnd.is_input
    THEN DeviceFindInput(fnd.container, device, qualifier.control_name)
    ELSE DeviceFindOutput(fnd.container, device, qualifier.control_name)

----------------------------------------------------------------------------
(* The expression tree: ControlExpression, UnaryExpression,                *)
(* BinaryExpression; Null is an empty std::unique_ptr<Expression>.         *)

Null == [kind |-> "Null"]

ControlExpression(qualifier, device, control) ==
    [kind |-> "Control", qualifier |-> qualifier, m_device |-> device,
     control |-> control]

UnaryExpression(op, inner) == [kind |-> "Unary", op |-> op, inner |-> inner]

BinaryExpression(op, lhs, rhs) ==
    [kind |-> "Binary", op |-> op, lhs |-> lhs, rhs |-> rhs]

\* 1.0 as a ControlState, in eighths
One == 8

\* std::min(a, b) is (b < a) ? b : a and std::max(a, b) is (a < b) ? b : a
StdMin(a, b) == IF b < a THEN b ELSE a
StdMax(a, b) == IF a < b THEN b ELSE a

\* ControlExpression::GetValue; inp is the state of the input controls
ControlGetValue(e, inp) == IF ~e.control.null THEN inp[e.control] ELSE 0

\* BinaryExpression::GetValue with the sum of ADD left uncapped
BinaryGetValue_NoClamp(op, lhsValue, rhsValue) ==
    CASE op = TOK_AND -> StdMin(lhsValue, rhsValue)
      [] op = TOK_OR -> StdMax(lhsValue, rhsValue)
      [] op = TOK_ADD -> lhsValue + rhsValue
      [] OTHER -> 0

\* BinaryExpression::GetValue, given the two children's values
BinaryGetValue(op, lhsValue, rhsValue) ==
    CASE op = TOK_AND -> StdMin(lhsValue, rhsValue)
      [] op = TOK_OR -> StdMax(lhsValue, rhsValue)
      [] op = TOK_ADD -> StdMin(lhsValue + rhsValue, One)
      [] OTHER -> 0

\* UnaryExpression::GetValue, given the child's value
UnaryGetValue(op, val) ==
    CASE op = TOK_NOT -> One - val
      [] OTHER -> 0

\* Expression::GetValue, the virtual call
RECURSIVE GetValue(_, _)
GetValue(e, inp) ==
    CASE e.kind = "Control" -> ControlGetValue(e, inp)
      [] e.kind = "Binary" ->
            BinaryGetValue(e.op, GetValue(e.lhs, inp), GetValue(e.rhs, inp))
      [] e.kind = "Unary" -> UnaryGetValue(e.op, GetValue(e.inner, inp))

\* ControlExpression::SetValue: the SetState calls it makes
ControlSetValue(e, v) ==
    IF ~e.control.null THEN <<[control |-> e.control, state |-> v]>> ELSE <<>>

\* UnaryExpression::SetValue handing v on unchanged
UnarySetValue_NoInvert(op, v) == v

\* UnaryExpression::SetValue: the value handed to the child
UnarySetValue(op, v) ==
    CASE op = TOK_NOT -> One - v
      [] OTHER -> v

\* Expression::SetValue, the virtual call: the Output::SetState calls made,
\* in the order they are made
RECURSIVE SetValue(_, _)
SetValue(e, v) ==
    CASE e.kind = "Control" -> ControlSetValue(e, v)
      [] e.kind = "Binary" -> SetValue(e.lhs, v) \o SetValue(e.rhs, v)
      [] e.kind = "Unary" -> SetValue(e.inner, UnarySetValue(e.op, v))

\* CountNumControls counting a leaf whether or not it has a control
ControlCountNumControls_EveryLeaf(e) == 1

\* ControlExpression::CountNumControls
ControlCountNumControls(e) == IF ~e.control.null THEN 1 ELSE 0

\* Expression::CountNumControls, the virtual call
RECURSIVE CountNumControls(_)
CountNumControls(e) ==
    CASE e.kind = "Control" -> ControlCountNumControls(e)
      [] e.kind = "Binary" -> CountNumControls(e.lhs) + CountNumControls(e.rhs)
      [] e.kind = "Unary" -> CountNumControls(e.inner)

\* OpName
OpName(op) ==
    CASE op = TOK_AND -> <<"A", "n", "d">>
      [] op = TOK_OR -> <<"O", "r">>
      [] op = TOK_NOT -> <<"N", "o", "t">>
      [] op = TOK_ADD -> <<"A", "d", "d">>
      [] OTHER -> <<>>

\* the control rendered without the backquotes around it
ControlToString_Bare(e) == QualifierToString(e.qualifier)

\* ControlExpression::operator std::string
ControlToString(e) == <<BACKTICK>> \o QualifierToString(e.qualifier) \o <<BACKTICK>>

\* Expression::operator std::string, the virtual call
RECURSIVE ToString(_)
ToString(e) ==
    CASE e.kind = "Control" -> ControlToString(e)
      [] e.kind = "Binary" ->
            OpName(e.op) \o <<"(">> \o ToString(e.lhs) \o <<",", " ">>
                \o ToString(e.rhs) \o <<")">>
      [] e.kind = "Unary" -> OpName(e.op) \o <<"(">> \o ToString(e.inner) \o <<")">>

----------------------------------------------------------------------------
(* class Parser.  The parser's m_it and the record of what it dereferenced *)
(* travel through the calls as m = [it, reads].                            *)

\* *m_it.  Dereferencing at or beyond tokens.end() is undefined behaviour:
\* the index is recorded in reads, the walk goes on with a token no lexer
\* produces, and the step that ran the parser then lets the outcome be any.
Deref(toks, it) == IF it \in 1..Len(toks) THEN toks[it] ELSE Token(TOK_INVALID)

\* Parser::Chew: return *m_it++
Chew(toks, m) ==
    [tok |-> Deref(toks, m.it),
     m |-> [it |-> m.it + 1, reads |-> Append(m.reads, m.it)]]

\* Parser::Peek: return *m_it
Peek(toks, m) ==
    [tok |-> Deref(toks, m.it),
     m |-> [it |-> m.it, reads |-> Append(m.reads, m.it)]]

\* Parser::Expects
Expects(toks, m, type) ==
    LET c == Chew(toks, m) IN [ok |-> c.tok.type = type, m |-> c.m]

\* struct ParseResult, with the parser state after the call
ParseResult(st, e, m) == [status |-> st, expr |-> e, m |-> m]

\* Parser::IsUnaryExpression
IsUnaryExpression(type) == type = TOK_NOT

\* Parser::IsBinaryToken
IsBinaryToken(type) == type \in {TOK_AND, TOK_OR, TOK_ADD}

RECURSIVE Atom(_, _, _)
RECURSIVE Unary(_, _, _)
RECURSIVE BinaryLoop(_, _, _, _)
RECURSIVE Binary(_, _, _)
RECURSIVE Paren(_, _, _)
RECURSIVE Toplevel(_, _, _)

\* Atom treating a reference that does not resolve as an error
Atom_RejectsUnresolved(toks, fnd, m) ==
    LET c == Chew(toks, m) IN
    CASE c.tok.type = TOK_CONTROL ->
            IF FindControl(fnd, c.tok.qualifier).null
            THEN ParseResult(SyntaxError, Null, c.m)
            ELSE ParseResult(Successful,
                             ControlExpression(c.tok.qualifier,
                                               FindDevice(fnd, c.tok.qualifier),
                                               FindControl(fnd, c.tok.qualifier)),
                             c.m)
      [] c.tok.type = TOK_LPAREN -> Paren(toks, fnd, c.m)
      [] OTHER -> ParseResult(SyntaxError, Null, c.m)

\* Parser::Atom
Atom(toks, fnd, m) ==
    LET c == Chew(toks, m) IN
    CASE c.tok.type = TOK_CONTROL ->
            ParseResult(Successful,
                        ControlExpression(c.tok.qualifier,
                                          FindDevice(fnd, c.tok.qualifier),
                                          FindControl(fnd, c.tok.qualifier)),
                        c.m)
      [] c.tok.type = TOK_LPAREN -> Paren(toks, fnd, c.m)
      [] OTHER -> ParseResult(SyntaxError, Null, c.m)

\* Parser::Unary
Unary(toks, fnd, m) ==
    LET p == Peek(toks, m) IN
    IF IsUnaryExpression(p.tok.type)
    THEN LET c == Chew(toks, p.m)
             result == Atom(toks, fnd, c.m)
         IN  IF result.status = SyntaxError
             THEN result
             ELSE ParseResult(Successful,
                              UnaryExpression(c.tok.type, result.expr),
                              result.m)
    ELSE Atom(toks, fnd, p.m)

\* BinaryLoop with the right operand parsed as a whole binary expression,
\* which nests to the right
BinaryLoop_RightNested(toks, fnd, e, m) ==
    LET p == Peek(toks, m) IN
    IF IsBinaryToken(p.tok.type)
    THEN LET c == Chew(toks, p.m)
             rest == Binary(toks, fnd, c.m)
         IN  IF rest.status = SyntaxError
             THEN rest
             ELSE ParseResult(Successful,
                              BinaryExpression(c.tok.type, e, rest.expr),
                              rest.m)
    ELSE ParseResult(Successful, e, p.m)

\* Parser::Binary, the while (IsBinaryToken(Peek().type)) loop; e is expr
BinaryLoop(toks, fnd, e, m) ==
    LET p == Peek(toks, m) IN
    IF IsBinaryToken(p.tok.type)
    THEN LET c == Chew(toks, p.m)
             unary_result == Unary(toks, fnd, c.m)
         IN  IF unary_result.status = SyntaxError
             THEN unary_result
             ELSE BinaryLoop(toks, fnd,
                             BinaryExpression(c.tok.type, e, unary_result.expr),
                             unary_result.m)
    ELSE ParseResult(Successful, e, p.m)

\* Parser::Binary
Binary(toks, fnd, m) ==
    LET result == Unary(toks, fnd, m) IN
    IF result.status = SyntaxError
    THEN result
    ELSE BinaryLoop(toks, fnd, result.expr, result.m)

\* Paren without the early return on a failed Toplevel
Paren_NoEarlyReturn(toks, fnd, m) ==
    LET result == Toplevel(toks, fnd, m)
        x == Expects(toks, result.m, TOK_RPAREN)
    IN  IF ~x.ok \/ result.status # Successful
        THEN ParseResult(SyntaxError, Null, x.m)
        ELSE ParseResult(result.status, result.expr, x.m)

\* Paren handing back the tree it parsed with the SyntaxError
Paren_KeepsTree(toks, fnd, m) ==
    LET result == Toplevel(toks, fnd, m) IN
    IF result.status # Successful
    THEN result
    ELSE LET x == Expects(toks, result.m, TOK_RPAREN) IN
         IF ~x.ok
         THEN ParseResult(SyntaxError, result.expr, x.m)
         ELSE ParseResult(result.status, result.expr, x.m)

\* Parser::Paren (the TOK_LPAREN is already chewed)
Paren(toks, fnd, m) ==
    LET result == Toplevel(toks, fnd, m) IN
    IF result.status # Successful
    THEN result
    ELSE LET x == Expects(toks, result.m, TOK_RPAREN) IN
         IF ~x.ok
         THEN ParseResult(SyntaxError, Null, x.m)
         ELSE ParseResult(result.status, result.expr, x.m)

\* Parser::Toplevel
Toplevel(toks, fnd, m) == Binary(toks, fnd, m)

\* Parser::Parser sets m_it = tokens.begin(); Parser::Parse
Parse(toks, fnd) == Toplevel(toks, fnd, [it |-> 1, reads |-> <<>>])

----------------------------------------------------------------------------
(* ParseExpressionInner and ParseExpression.  Their result carries, beside *)
(* the status and the tree, what the run did: whether the lexer ran, the   *)
(* token vector, and the parser's final m_it and reads.                    *)

\* StripSpaces (Common/StringUtil.h): the text without the blanks, tabs,
\* carriage returns and line feeds at its two ends
RECURSIVE StripSpaces(_)
StripSpaces(s) ==
    IF s = <<>> THEN s
    ELSE IF Head(s) \in {" ", "\t", "\r", "\n"} THEN StripSpaces(Tail(s))
    ELSE IF s[Len(s)] \in {" ", "\t", "\r", "\n"}
    THEN StripSpaces(SubSeq(s, 1, Len(s) - 1))
    ELSE s

\* ParseExpressionInner
ParseExpressionInner(s, fnd) ==
    IF StripSpaces(s) = <<>>
    THEN [status |-> EmptyExpression, expr |-> Null, lexed |-> FALSE,
          tokens |-> <<>>, it |-> 1, reads |-> <<>>]
    ELSE LET l == Tokenize(s, 1, <<>>) IN
         IF l.status # Successful
         THEN [status |-> l.status, expr |-> Null, lexed |-> TRUE,
               tokens |-> l.tokens, it |-> 1, reads |-> <<>>]
         ELSE LET result == Parse(l.tokens, fnd) IN
              [status |-> result.status, expr |-> result.expr, lexed |-> TRUE,
               tokens |-> l.tokens, it |-> result.m.it,
               reads |-> result.m.reads]

\* ParseExpression looking up the trimmed text on its fast path
ParseExpression_Trimmed(s, fnd) ==
    LET qualifier == [has_device |-> FALSE, device_qualifier |-> <<>>,
                      control_name |-> StripSpaces(s)]
        device == FindDevice(fnd, qualifier)
        control == FindControl(fnd, qualifier)
    IN  IF ~control.null
        THEN [status |-> Successful,
              expr |-> ControlExpression(qualifier, device, control),
              lexed |-> FALSE, tokens |-> <<>>, it |-> 1, reads |-> <<>>]
        ELSE ParseExpressionInner(s, fnd)

\* ParseExpression
ParseExpression(s, fnd) ==
    LET qualifier == [has_device |-> FALSE, device_qualifier |-> <<>>,
                      control_name |-> s]
        device == FindDevice(fnd, qualifier)
        control == FindControl(fnd, qualifier)
    IN  IF ~control.null
        THEN [status |-> Successful,
              expr |-> ControlExpression(qualifier, device, control),
              lexed |-> FALSE, tokens |-> <<>>, it |-> 1, reads |-> <<>>]
        ELSE ParseExpressionInner(s, fnd)

----------------------------------------------------------------------------
(* The inputs of the checked instances. *)

\* the characters of a source text: two letters, a blank, the six operator
\* and grouping characters, the backquote, the colon, and a comma (which no
\* rule of the lexer accepts)
InputChars == {"a", "b", " ", "&", "|", "+", "!", "(", ")", BACKTICK, ":", ","}

Strings(n) == UNION {[1..k -> InputChars] : k \in 0..n}

\* device identities
DevD == <<"d">>
DevE == <<"e">>

\* The finders.  Nothing is connected; the default device has input a only;
\* the default device has inputs a and b and a second device has input b;
\* the default device has outputs a and b; the default device has outputs
\* whose names come from old configurations and are no grammatical
\* expression.
FinderNone == [container |-> <<>>, default_device |-> DevD, is_input |-> TRUE]
FinderA ==
    [container |-> [d \in {DevD} |-> [inputs |-> {<<"a">>}, outputs |-> {}]],
     default_device |-> DevD, is_input |-> TRUE]
FinderAB ==
    [container |->
        [d \in {DevD, DevE} |->
            IF d = DevD
            THEN [inputs |-> {<<"a">>, <<"b">>}, outputs |-> {}]
            ELSE [inputs |-> {<<"b">>}, outputs |-> {}]],
     default_device |-> DevD, is_input |-> TRUE]
FinderOut ==
    [container |->
        [d \in {DevD} |-> [inputs |-> {}, outputs |-> {<<"a">>, <<"b">>}]],
     default_device |-> DevD, is_input |-> FALSE]
FinderLegacy ==
    [container |->
        [d \in {DevD} |->
            [inputs |-> {},
             outputs |-> {<<"a", " ", "b">>, <<"a", ",">>, <<" ", "a">>,
                          <<"a", BACKTICK, "b">>,
                          <<BACKTICK, "a", BACKTICK>>}]],
     default_device |-> DevD, is_input |-> FALSE]

Finders == {FinderNone, FinderA, FinderAB, FinderOut, FinderLegacy}

\* the input controls of the container and the states they may report
InputControls(fnd) ==
    UNION {{[null |-> FALSE, device |-> d, name |-> n] :
                n \in fnd.container[d].inputs} : d \in DOMAIN fnd.container}

Levels == {0, 3, 5, One}

\* the tokens a vector handed to the Parser is made of
ParserTokens ==
    {Token(TOK_LPAREN), Token(TOK_RPAREN), Token(TOK_AND), Token(TOK_OR),
     Token(TOK_NOT), Token(TOK_ADD)}
    \cup {QualifiedToken(TOK_CONTROL,
            [has_device |-> FALSE, device_qualifier |-> <<>>, control_name |-> n]) :
            n \in {<<"a">>, <<"b">>}}

\* what a successful Tokenize yields: tokens, then exactly one TOK_EOF
TokenVectors(n) ==
    {Append(t, Token(TOK_EOF)) : t \in UNION {[1..k -> ParserTokens] : k \in 0..n}}

\* the trees of exactly n nodes over the given leaves
RECURSIVE Trees(_, _)
Trees(n, leaves) ==
    IF n = 1 THEN leaves
    ELSE {UnaryExpression(TOK_NOT, t) : t \in Trees(n - 1, leaves)}
         \cup UNION {{BinaryExpression(op, l, r) :
                        op \in {TOK_AND, TOK_OR, TOK_ADD},
                        l \in Trees(k, leaves),
                        r \in Trees(n - 1 - k, leaves)} : k \in 1..(n - 2)}

\* the leaves the parser builds under a finder for the barewords a, b and c
Leaves(fnd) ==
    {ControlExpression(q, FindDevice(fnd, q), FindControl(fnd, q)) :
        q \in {[has_device |-> FALSE, device_qualifier |-> <<>>, control_name |-> n] :
                 n \in {<<"a">>, <<"b">>, <<"c">>}}}

----------------------------------------------------------------------------
(* The steps. *)

NoRender == [r1 |-> <<>>, st2 |-> "", r2 |-> <<>>]

\* nothing evaluated, counted or rendered yet
Fresh ==
    /\ inputs = <<>>
    /\ value = 0
    /\ writes = <<>>
    /\ setv = 0
    /\ count = 0
    /\ rendered = NoRender

\* a read at or beyond tokens.end()
OutOfBounds(toks, rd) == \E i \in 1..Len(rd) : rd[i] \notin 1..Len(toks)

\* a caller hands a text and a finder to ParseExpression
ParseExpressionStep ==
    /\ pc = "start"
    /\ \E r \in {ParseExpression(str, finder)} :
       /\ tokens' = r.tokens
       /\ m_it' = r.it
       /\ reads' = r.reads
       /\ lexed' = r.lexed
       /\ IF OutOfBounds(r.tokens, r.reads)
          THEN status' \in ParseStatus /\ expr' \in {Null, r.expr}
          ELSE status' = r.status /\ expr' = r.expr
    /\ pc' = "parsed"
    /\ UNCHANGED <<str, finder, inputs, value, writes, setv, count, rendered>>

\* Parser(tokens, finder).Parse() on a token vector
ParserParseStep ==
    /\ pc = "start"
    /\ \E r \in {Parse(tokens, finder)} :
       /\ m_it' = r.m.it
       /\ reads' = r.m.reads
       /\ IF OutOfBounds(tokens, r.m.reads)
          THEN status' \in ParseStatus /\ expr' \in {Null, r.expr}
          ELSE status' = r.status /\ expr' = r.expr
    /\ pc' = "parsed"
    /\ UNCHANGED <<str, finder, tokens, lexed, inputs, value, writes, setv,
                   count, rendered>>

\* expr->GetValue() on the tree of an input reference (a finder with
\* is_input set: GetValue calls control->ToInput(), which only an input
\* control answers), the input controls being in any state
GetValueStep ==
    /\ pc = "parsed"
    /\ expr # Null
    /\ finder.is_input
    /\ \E inp \in [InputControls(finder) -> Levels] :
          /\ inputs' = inp
          /\ value' = GetValue(expr, inp)
    /\ pc' = "got"
    /\ UNCHANGED <<str, finder, tokens, status, expr, m_it, reads, lexed,
                   writes, setv, count, rendered>>

\* expr->SetValue(v) on the tree of an output reference (a finder with
\* is_input clear: SetValue calls control->ToOutput())
SetValueStep ==
    /\ pc = "parsed"
    /\ expr # Null
    /\ ~finder.is_input
    /\ \E v \in Levels :
          /\ setv' = v
          /\ writes' = SetValue(expr, v)
    /\ pc' = "set"
    /\ UNCHANGED <<str, finder, tokens, status, expr, m_it, reads, lexed,
                   inputs, value, count, rendered>>

\* expr->CountNumControls()
CountNumControlsStep ==
    /\ pc = "parsed"
    /\ expr # Null
    /\ count' = CountNumControls(expr)
    /\ pc' = "counted"
    /\ UNCHANGED <<str, finder, tokens, status, expr, m_it, reads, lexed,
                   inputs, value, writes, setv, rendered>>

\* the tree is rendered, the rendering is parsed with the same finder, and
\* the tree of that parse is rendered
RenderStep ==
    /\ pc = "parsed"
    /\ expr # Null
    /\ \E r1 \in {ToString(expr)} :
          \E again \in {ParseExpression(r1, finder)} :
             rendered' = [r1 |-> r1, st2 |-> again.status,
                          r2 |-> IF again.expr # Null
                                 THEN ToString(again.expr) ELSE <<>>]
    /\ pc' = "rendered"
    /\ UNCHANGED <<str, finder, tokens, status, expr, m_it, reads, lexed,
                   inputs, value, writes, setv, count>>

----------------------------------------------------------------------------
(* Spec: ParseExpression on a source text, then one use of the tree. *)

Init ==
    /\ str \in Strings(MaxLen)
    /\ finder \in Finders
    /\ tokens = <<>>
    /\ pc = "start"
    /\ status = ""
    /\ expr = Null
    /\ m_it = 1
    /\ reads = <<>>
    /\ lexed = FALSE
    /\ Fresh

Next ==
    \/ ParseExpressionStep
    \/ GetValueStep
    \/ SetValueStep
    \/ CountNumControlsStep
    \/ RenderStep

Spec == Init /\ [][Next]_vars

(* SpecParser: the Parser on a token vector. *)

InitParser ==
    /\ str = <<>>
    /\ finder = FinderA
    /\ tokens \in TokenVectors(MaxToks)
    /\ pc = "start"
    /\ status = ""
    /\ expr = Null
    /\ m_it = 1
    /\ reads = <<>>
    /\ lexed = TRUE
    /\ Fresh

NextParser == ParserParseStep

SpecParser == InitParser /\ [][NextParser]_vars

(* SpecEval: GetValue and SetValue on a tree the parser built. *)

InitEval ==
    /\ str = <<>>
    /\ finder \in {FinderAB, FinderOut}
    /\ tokens = <<>>
    /\ pc = "parsed"
    /\ status = Successful
    /\ expr \in UNION {Trees(n, Leaves(finder)) : n \in 1..MaxNodes}
    /\ m_it = 1
    /\ reads = <<>>
    /\ lexed = TRUE
    /\ Fresh

NextEval ==
    \/ GetValueStep
    \/ SetValueStep

SpecEval == InitEval /\ [][NextEval]_vars

----------------------------------------------------------------------------
(* Definitions the properties are stated with.  They describe what is      *)
(* expected of the program and take nothing from the parser's operators    *)
(* but the node constructors.                                              *)

\* the token vector without its final TOK_EOF
Body(toks) == SubSeq(toks, 1, Len(toks) - 1)

\* The grammar
\*    toplevel := binary
\*    binary   := unary ( (AND|OR|ADD) unary )*
\*    unary    := NOT atom | atom
\*    atom     := CONTROL | LPAREN toplevel RPAREN
\* as derivability of a token sequence from each rule.
RECURSIVE DerivesAtom(_)
RECURSIVE DerivesUnary(_)
RECURSIVE DerivesBinary(_)
DerivesAtom(s) ==
    \/ Len(s) = 1 /\ s[1].type = TOK_CONTROL
    \/ /\ Len(s) >= 3
       /\ s[1].type = TOK_LPAREN
       /\ s[Len(s)].type = TOK_RPAREN
       /\ DerivesBinary(SubSeq(s, 2, Len(s) - 1))
DerivesUnary(s) ==
    \/ DerivesAtom(s)
    \/ Len(s) >= 2 /\ s[1].type = TOK_NOT /\ DerivesAtom(Tail(s))
DerivesBinary(s) ==
    \/ DerivesUnary(s)
    \/ \E k \in 2..(Len(s) - 1) :
          /\ s[k].type \in {TOK_AND, TOK_OR, TOK_ADD}
          /\ DerivesUnary(SubSeq(s, k + 1, Len(s)))
          /\ DerivesBinary(SubSeq(s, 1, k - 1))
DerivesToplevel(s) == DerivesBinary(s)

\* The tree of a derivable sequence u0 op1 u1 ... opn un, read from its end:
\* the last operator outside parentheses is the root, all before it the left
\* child, the unit after it the right child.
RECURSIVE LeftNested(_, _)
UnitTree(s, fnd) ==
    LET a == IF s[1].type = TOK_NOT THEN Tail(s) ELSE s
        t == IF Len(a) = 1
             THEN ControlExpression(a[1].qualifier, FindDevice(fnd, a[1].qualifier),
                                    FindControl(fnd, a[1].qualifier))
             ELSE LeftNested(SubSeq(a, 2, Len(a) - 1), fnd)
    IN  IF s[1].type = TOK_NOT THEN UnaryExpression(TOK_NOT, t) ELSE t
LeftNested(s, fnd) ==
    IF DerivesUnary(s)
    THEN UnitTree(s, fnd)
    ELSE LET k == CHOOSE k \in 2..(Len(s) - 1) :
                      /\ s[k].type \in {TOK_AND, TOK_OR, TOK_ADD}
                      /\ DerivesUnary(SubSeq(s, k + 1, Len(s)))
                      /\ DerivesBinary(SubSeq(s, 1, k - 1))
         IN  BinaryExpression(s[k].type,
                              LeftNested(SubSeq(s, 1, k - 1), fnd),
                              UnitTree(SubSeq(s, k + 1, Len(s)), fnd))

\* the names of the controls of the finder's default device, in the
\* finder's direction
DefaultControls(fnd) ==
    IF fnd.default_device \in DOMAIN fnd.container
    THEN IF fnd.is_input
         THEN fnd.container[fnd.default_device].inputs
         ELSE fnd.container[fnd.default_device].outputs
    ELSE {}

\* whether the container holds the control a qualifier names
Resolves(fnd, q) ==
    LET d == IF q.has_device THEN q.device_qualifier ELSE fnd.default_device IN
    /\ d \in DOMAIN fnd.container
    /\ q.control_name \in (IF fnd.is_input THEN fnd.container[d].inputs
                           ELSE fnd.container[d].outputs)

\* the nodes of a tree
RECURSIVE Nodes(_)
Nodes(e) ==
    CASE e.kind = "Control" -> {e}
      [] e.kind = "Unary" -> {e} \cup Nodes(e.inner)
      [] e.kind = "Binary" -> {e} \cup Nodes(e.lhs) \cup Nodes(e.rhs)

\* the leaves of a tree from left to right, each with the number of NOT
\* nodes above it
RECURSIVE LeafPaths(_, _)
LeafPaths(e, nots) ==
    CASE e.kind = "Control" -> <<[leaf |-> e, nots |-> nots]>>
      [] e.kind = "Unary" -> LeafPaths(e.inner, nots + 1)
      [] e.kind = "Binary" -> LeafPaths(e.lhs, nots) \o LeafPaths(e.rhs, nots)

\* the CONTROL tokens of a source text
SourceControlTokens(s) ==
    LET toks == Tokenize(s, 1, <<>>).tokens IN
    Cardinality({i \in 1..Len(toks) : toks[i].type = TOK_CONTROL})

\* a text holds a character
Holds(s, c) == \E i \in 1..Len(s) : s[i] = c

----------------------------------------------------------------------------
(* The properties. *)

\* C1: ParseExpression returns a tree if and only if it returns Successful;
\* a SyntaxError or EmptyExpression never carries a (partial) tree.
C1_TreeIffSuccessful ==
    pc # "start" => ((expr # Null) <=> (status = Successful))

\* C1 happens: a parenthesis was opened, a control parsed inside it, and the
\* parse ended in a SyntaxError
C1_Witness ==
    /\ pc = "parsed"
    /\ lexed
    /\ Len(tokens) >= 3
    /\ tokens[1].type = TOK_LPAREN
    /\ tokens[2].type = TOK_CONTROL
    /\ m_it > 2
    /\ status = SyntaxError

\* C2, as claimed: when the default device has a control named like the
\* trimmed text, the result is Successful with one leaf bound to that
\* control (stated here by what the caller gets back; that lexer and parser
\* did not run is left out).
C2_FastPathOnTrimmedText ==
    (pc = "parsed" /\ StripSpaces(str) \in DefaultControls(finder)) =>
        /\ status = Successful
        /\ expr.kind = "Control"
        /\ expr.qualifier.control_name = StripSpaces(str)
        /\ ~expr.control.null
        /\ expr.control.name = StripSpaces(str)

\* C2, amended: when the default device has a control named like the text
\* exactly as given, the result is Successful with one leaf without device
\* qualifier bound to that control, and neither lexer nor parser ran,
\* whatever characters the text holds.
C2_FastPathOnExactText ==
    (pc = "parsed" /\ str \in DefaultControls(finder)) =>
        /\ status = Successful
        /\ expr.kind = "Control"
        /\ expr.qualifier =
              [has_device |-> FALSE, device_qualifier |-> <<>>, control_name |-> str]
        /\ expr.control =
              [null |-> FALSE, device |-> finder.default_device, name |-> str]
        /\ ~lexed
        /\ tokens = <<>>
        /\ reads = <<>>

\* C2 happens: the text names a control and holds a character no lexer rule
\* accepts, or a blank at its start
C2_Witness ==
    /\ pc = "parsed"
    /\ str \in DefaultControls(finder)
    /\ Holds(str, ",") \/ str[1] = " "
    /\ status = Successful

C5_NumericLaws ==
    pc = "got" =>
        /\ value = GetValue(expr, inputs)
        /\ \A n \in Nodes(expr) :
              LET v == GetValue(n, inputs) IN
              /\ v \in 0..One
              /\ n.kind = "Unary" => v + GetValue(n.inner, inputs) = One
              /\ n.kind = "Binary" =>
                    LET l == GetValue(n.lhs, inputs)
                        r == GetValue(n.rhs, inputs)
                    IN  /\ n.op = TOK_AND => v \in {l, r} /\ v <= l /\ v <= r
                        /\ n.op = TOK_OR => v \in {l, r} /\ v >= l /\ v >= r
                        /\ n.op = TOK_ADD =>
                              \/ l + r <= One /\ v = l + r
                              \/ l + r > One /\ v = One

\* C5 happens: an ADD of two values below 1 whose sum exceeds 1
C5_Witness ==
    /\ pc = "got"
    /\ expr.kind = "Binary"
    /\ expr.op = TOK_ADD
    /\ GetValue(expr.lhs, inputs) < One
    /\ GetValue(expr.rhs, inputs) < One
    /\ GetValue(expr.lhs, inputs) + GetValue(expr.rhs, inputs) > One
    /\ value = One

C7_UnresolvedIsNoError ==
    /\ (pc # "start" /\ lexed /\ tokens # <<>> /\ DerivesToplevel(Body(tokens))) =>
          status = Successful
    /\ (pc # "start" /\ expr # Null) =>
          \A n \in Nodes(expr) :
              (n.kind = "Control" /\ ~Resolves(finder, n.qualifier)) => n.control.null
    /\ pc = "got" =>
          /\ \A n \in Nodes(expr) :
                (n.kind = "Control" /\ ~Resolves(finder, n.qualifier)) =>
                    GetValue(n, inputs) = 0
          /\ (/\ expr.kind = "Binary"
              /\ expr.op = TOK_OR
              /\ expr.lhs.kind = "Control"
              /\ expr.rhs.kind = "Control"
              /\ ~Resolves(finder, expr.lhs.qualifier)
              /\ Resolves(finder, expr.rhs.qualifier)) =>
                 value = inputs[expr.rhs.control]
    /\ pc = "set" =>
          \A i \in 1..Len(writes) :
              \E n \in Nodes(expr) :
                  /\ n.kind = "Control"
                  /\ Resolves(finder, n.qualifier)
                  /\ writes[i].control = n.control

\* C7 happens: unresolved | resolved has been parsed and evaluated, the
\* resolved control reading more than 0
C7_Witness ==
    /\ pc = "got"
    /\ status = Successful
    /\ expr.kind = "Binary"
    /\ expr.op = TOK_OR
    /\ expr.lhs.kind = "Control"
    /\ expr.rhs.kind = "Control"
    /\ ~Resolves(finder, expr.lhs.qualifier)
    /\ Resolves(finder, expr.rhs.qualifier)
    /\ value > 0

\* C8: a token sequence u0 op1 u1 ... opn un derivable from the grammar
\* (each ui an atom or NOT and one atom, each opi any of AND, OR, ADD)
\* parses to the left-nested tree (..((u0 op1 u1) op2 u2).. opn un) whatever
\* the operators are; NOT followed by NOT where a unit is due is a
\* SyntaxError, and no Successful parse has consumed NOT followed by NOT.
C8_LeftNestedNoPrecedence ==
    pc = "parsed" =>
        /\ DerivesToplevel(Body(tokens)) =>
              /\ status = Successful
              /\ expr = LeftNested(Body(tokens), finder)
        /\ \A i \in 1..(Len(tokens) - 2) :
              (/\ tokens[i].type = TOK_NOT
               /\ tokens[i + 1].type = TOK_NOT
               /\ \/ i = 1
                  \/ /\ i >= 3
                     /\ tokens[i - 1].type \in {TOK_AND, TOK_OR, TOK_ADD}
                     /\ DerivesBinary(SubSeq(tokens, 1, i - 2))) =>
                 status = SyntaxError
        /\ status = Successful =>
              \A i \in 1..(m_it - 1) :
                  ~(tokens[i].type = TOK_NOT /\ tokens[i + 1].type = TOK_NOT)

\* C8 happens: a & b + a has been parsed to Add(And(a, b), a)
C8_Witness ==
    /\ pc = "parsed"
    /\ Len(tokens) = 6
    /\ tokens[2].type = TOK_AND
    /\ tokens[4].type = TOK_ADD
    /\ DerivesToplevel(Body(tokens))
    /\ expr.kind = "Binary"
    /\ expr.op = TOK_ADD
    /\ expr.lhs.kind = "Binary"
    /\ expr.lhs.op = TOK_AND

\* C9, as claimed: the parser returns Successful only if the whole token
\* sequence before EOF is derivable from toplevel; any other sequence is a
\* SyntaxError.
C9_EveryViolationReported ==
    pc = "parsed" =>
        /\ status = Successful => DerivesToplevel(Body(tokens))
        /\ ~DerivesToplevel(Body(tokens)) => status = SyntaxError

\* C10: Peek and Chew never read at or beyond the end of the token vector:
\* every read is at an index of the vector, the cursor ends no further than
\* just after the EOF token, and when the EOF token has been chewed that was
\* the last read and the parse is a SyntaxError.
C10_CursorStaysInVector ==
    pc = "parsed" =>
        /\ \A i \in 1..Len(reads) : reads[i] \in 1..Len(tokens)
        /\ m_it <= Len(tokens) + 1
        /\ m_it = Len(tokens) + 1 =>
              /\ reads[Len(reads)] = Len(tokens)
              /\ status = SyntaxError

\* C10 happens: inside a parenthesis the parser has chewed the EOF token
C10_Witness ==
    /\ pc = "parsed"
    /\ Len(tokens) >= 3
    /\ tokens[1].type = TOK_LPAREN
    /\ tokens[2].type = TOK_CONTROL
    /\ m_it = Len(tokens) + 1

====
